---- MODULE Spec2Model ----
(***************************************************************************)
(* A model of the WebDAV object store adapter                              *)
(* (internal/plugin/objectstoreplugin.go).                                 *)
(*                                                                         *)
(* Go strings are modelled as sequences of one-character strings, so that  *)
(* strings.HasPrefix, strings.CutPrefix, strings.LastIndex and the         *)
(* fmt.Sprintf concatenations are computed character by character.         *)
(*                                                                         *)
(* The WebDAV server behind gowebdav.Client is modelled as a tree of       *)
(* collections (directories) and resources (files), addressed by the list  *)
(* of path segments of the request path ("/" separated, empty segments     *)
(* dropped, as gowebdav's FixSlashes/MkdirAll and servers do).             *)
(***************************************************************************)
EXTENDS Integers, Sequences, FiniteSets, TLC

VARIABLES
    w,      \* the WebDAVObjectStore struct: [bucketsDir, delimiter]
    store,  \* the WebDAV server: [files, dirs], sets of segment lists
    last,   \* the last completed call: its arguments, its results, the store before it
    stored, \* the (bucket, key) pairs put with success and not passed to DeleteObject since
    tasks   \* two calls in flight on connections of their own (SpecConc only)

vars == <<w, store, last, stored, tasks>>

\* ---------------------------------------------------------------- bounds

\* At most this many objects are stored at once.
MaxObjects == 3

\* ---------------------------------------------------------------- strings

\* The characters in use, in ASCII order.
Alphabet ==
    <<"-", "/", "a", "b", "c", "d", "e", "g", "h", "i", "k", "m", "n", "o", "p",
      "r", "s", "t", "u", "y">>

Code(c) == CHOOSE i \in 1..Len(Alphabet) : Alphabet[i] = c

\* strings.HasPrefix
HasPrefix(s, prefix) ==
    Len(prefix) <= Len(s) /\ SubSeq(s, 1, Len(prefix)) = prefix

\* strings.HasSuffix
HasSuffix(s, suffix) ==
    Len(suffix) <= Len(s) /\ SubSeq(s, Len(s) - Len(suffix) + 1, Len(s)) = suffix

\* strings.CutPrefix: (after, found)
CutPrefix(s, prefix) ==
    IF HasPrefix(s, prefix)
    THEN [after |-> SubSeq(s, Len(prefix) + 1, Len(s)), found |-> TRUE]
    ELSE [after |-> s, found |-> FALSE]

\* strings.LastIndex: the 0-based index of the last occurrence of substr, or -1
LastIndex(s, substr) ==
    LET at == {i \in 0..(Len(s) - Len(substr)) :
                   SubSeq(s, i + 1, i + Len(substr)) = substr}
    IN  IF at = {} THEN -1 ELSE CHOOSE i \in at : \A j \in at : j <= i

\* byte-wise string order (the order a server lists names in)
RECURSIVE StrLess(_, _)
StrLess(a, b) ==
    IF b = <<>> THEN FALSE
    ELSE IF a = <<>> THEN TRUE
    ELSE IF Head(a) = Head(b) THEN StrLess(Tail(a), Tail(b))
    ELSE Code(Head(a)) < Code(Head(b))

RECURSIVE SortNames(_)
SortNames(S) ==
    IF S = {} THEN <<>>
    ELSE LET m == CHOOSE x \in S : \A y \in S \ {x} : StrLess(x, y)
         IN  <<m>> \o SortNames(S \ {m})

\* ---------------------------------------------------------------- transport

\* The segments of a request path: split on "/", empty segments dropped.
RECURSIVE Segments(_)
Segments(path) ==
    IF path = <<>> THEN <<>>
    ELSE LET i == CHOOSE k \in 1..(Len(path) + 1) :
                      /\ (k = Len(path) + 1 \/ path[k] = "/")
                      /\ \A j \in 1..(k - 1) : path[j] # "/"
             first == SubSeq(path, 1, i - 1)
             rest  == Segments(SubSeq(path, i + 1, Len(path)))
         IN  IF first = <<>> THEN rest ELSE <<first>> \o rest

EmptyStore == [files |-> {}, dirs |-> {}]

\* the root collection always exists
IsDirAt(st, p) == p = <<>> \/ p \in st.dirs

IsUnder(p, q) == Len(q) <= Len(p) /\ SubSeq(p, 1, Len(q)) = q

ChildNames(st, p) ==
    {q[Len(q)] : q \in {x \in st.files \cup st.dirs : Len(x) = Len(p) + 1 /\ IsUnder(x, p)}}

\* gowebdav.Client.ReadDir: the entries (name, is-directory) of a collection in
\* name order, or a not-found error.
ReadDir(st, path) ==
    LET p == Segments(path)
        names == SortNames(ChildNames(st, p))
    IN  IF IsDirAt(st, p)
        THEN [err |-> "nil",
              files |-> [i \in 1..Len(names) |->
                            [Name |-> names[i],
                             IsDir |-> Append(p, names[i]) \in st.dirs]]]
        ELSE [err |-> "NotFound", files |-> <<>>]

\* gowebdav.Client.MkdirAll: creates the collection and its missing ancestors;
\* fails when an ancestor is a file.
MkdirAll(st, path) ==
    LET p == Segments(path)
        ancestors == {SubSeq(p, 1, n) : n \in 1..Len(p)}
    IN  IF ancestors \cap st.files # {}
        THEN [err |-> "Conflict", store |-> st]
        ELSE [err |-> "nil", store |-> [st EXCEPT !.dirs = @ \cup ancestors]]

\* gowebdav.Client.WriteStream: PUT of a resource into an existing collection.
WriteStream(st, path) ==
    LET p == Segments(path)
    IN  IF p = <<>> \/ p \in st.dirs \/ ~IsDirAt(st, SubSeq(p, 1, Len(p) - 1))
        THEN [err |-> "Conflict", store |-> st]
        ELSE [err |-> "nil", store |-> [st EXCEPT !.files = @ \cup {p}]]

\* gowebdav.Client.Remove: DELETE of a resource, or of a collection with all it
\* contains; an absent path is not an error; the root collection is refused.
Remove(st, path) ==
    LET p == Segments(path)
    IN  IF p = <<>>
        THEN [err |-> "Forbidden", store |-> st]
        ELSE [err |-> "nil",
              store |-> [files |-> {x \in st.files : ~IsUnder(x, p)},
                         dirs  |-> {x \in st.dirs : ~IsUnder(x, p)}]]

\* ---------------------------------------------------------------- adapter

Slash == <<"/">>

\* NewWebDAVObjectStore: every string field of the struct is empty.
NewWebDAVObjectStore ==
    /\ w = [bucketsDir |-> <<>>, delimiter |-> <<>>]
    /\ store = EmptyStore
    /\ last = [op |-> "none", bucket |-> <<>>, arg |-> <<>>, delimiter |-> <<>>,
               err |-> "nil", result |-> <<>>, pre |-> EmptyStore]
    /\ stored = {}
    /\ tasks = [state |-> "idle"]

\* Init: the struct fields the listing and path logic reads, from the
\* configuration map (an absent option reads as the empty string).
Init(config) ==
    LET delimiter == IF config.delimiter = <<>> THEN Slash ELSE config.delimiter
        bucketsDir ==
            IF config.bucketsDir # <<>> /\ ~HasPrefix(config.bucketsDir, Slash)
            THEN config.bucketsDir \o Slash
            ELSE config.bucketsDir
    IN  [bucketsDir |-> bucketsDir, delimiter |-> delimiter]

SplitPathToDirAndFilename(path) ==
    LET lastSeparatorI == LastIndex(path, Slash)
    IN  IF lastSeparatorI # -1
        THEN [dir  |-> SubSeq(path, 1, lastSeparatorI),
              name |-> SubSeq(path, lastSeparatorI + 2, Len(path))]
        ELSE [dir |-> <<>>, name |-> path]

\* fmt.Sprintf("%s%s%s%s", w.bucketsDir, bucket, w.delimiter, key)
ObjectPath(cfg, bucket, key) == cfg.bucketsDir \o bucket \o cfg.delimiter \o key

PutObject(cfg, st, bucket, key) ==
    LET path == ObjectPath(cfg, bucket, key)
        dir  == SplitPathToDirAndFilename(path).dir
        mk   == MkdirAll(st, dir)
    IN  IF mk.err # "nil" THEN mk ELSE WriteStream(mk.store, path)

\* DeleteObject without the removal of the emptied parent directory
DeleteObjectKeepsParent(cfg, st, bucket, key) ==
    Remove(st, ObjectPath(cfg, bucket, key))

\* DeleteObject without the test len(files) == 0: the parent is always removed
DeleteObjectRemovesParent(cfg, st, bucket, key) ==
    LET path == ObjectPath(cfg, bucket, key)
        dir  == SplitPathToDirAndFilename(path).dir
        rm   == Remove(st, path)
        rd   == ReadDir(rm.store, dir)
    IN  IF rm.err # "nil" THEN rm
        ELSE IF rd.err # "nil" THEN [err |-> rd.err, store |-> rm.store]
        ELSE Remove(rm.store, dir)

DeleteObject(cfg, st, bucket, key) ==
    LET path == ObjectPath(cfg, bucket, key)
        dir  == SplitPathToDirAndFilename(path).dir
        rm   == Remove(st, path)
        rd   == ReadDir(rm.store, dir)
    IN  IF rm.err # "nil" THEN rm
        ELSE IF rd.err # "nil" THEN [err |-> rd.err, store |-> rm.store]
        ELSE IF Len(rd.files) = 0 THEN Remove(rm.store, dir)
        ELSE [err |-> "nil", store |-> rm.store]

\* the loop over files: an entry that is no directory and has the name
RECURSIVE ObjectExistsLoop(_, _)
ObjectExistsLoop(files, name) ==
    IF files = <<>> THEN FALSE
    ELSE IF ~Head(files).IsDir /\ Head(files).Name = name THEN TRUE
    ELSE ObjectExistsLoop(Tail(files), name)

\* ObjectExists without the IsErrNotFound test: a missing directory is an error
ObjectExistsFailsOnMissingDir(cfg, st, bucket, key) ==
    LET split == SplitPathToDirAndFilename(ObjectPath(cfg, bucket, key))
        rd == ReadDir(st, split.dir)
    IN  IF rd.err # "nil"
        THEN [exists |-> FALSE, err |-> rd.err]
        ELSE [exists |-> ObjectExistsLoop(rd.files, split.name), err |-> "nil"]

ObjectExists(cfg, st, bucket, key) ==
    LET split == SplitPathToDirAndFilename(ObjectPath(cfg, bucket, key))
        rd == ReadDir(st, split.dir)
    IN  IF rd.err # "nil"
        THEN IF rd.err = "NotFound"
             THEN [exists |-> FALSE, err |-> "nil"]
             ELSE [exists |-> FALSE, err |-> rd.err]
        ELSE [exists |-> ObjectExistsLoop(rd.files, split.name), err |-> "nil"]

\* the prefix, made to end with the delimiter unless it is empty
NormalizePrefix(prefix, delimiter) ==
    IF prefix # <<>> /\ ~HasSuffix(prefix, delimiter)
    THEN prefix \o delimiter
    ELSE prefix

RECURSIVE ListObjectsLoop(_, _, _, _, _)
ListObjectsLoop(cfg, objects, files, path, prefixToCut) ==
    IF files = <<>> THEN objects
    ELSE LET file == Head(files)
             completePath == path \o file.Name \o cfg.delimiter
             cut == CutPrefix(completePath, prefixToCut)
         IN  IF ~file.IsDir /\ cut.found
             THEN ListObjectsLoop(cfg, Append(objects, cut.after), Tail(files),
                                  path, prefixToCut)
             ELSE ListObjectsLoop(cfg, objects, Tail(files), path, prefixToCut)

ListObjects(cfg, st, bucket, prefix) ==
    LET prefixToUse == NormalizePrefix(prefix, cfg.delimiter)
        path == cfg.bucketsDir \o bucket \o cfg.delimiter \o prefixToUse
        rd == ReadDir(st, path)
        prefixToCut == cfg.bucketsDir \o bucket \o cfg.delimiter
    IN  IF rd.err # "nil"
        THEN IF rd.err = "NotFound"
             THEN [objects |-> <<>>, err |-> "nil"]
             ELSE [objects |-> <<>>, err |-> rd.err]
        ELSE [objects |-> ListObjectsLoop(cfg, <<>>, rd.files, path, prefixToCut),
              err |-> "nil"]

RECURSIVE AddDirsWithCommonPrefixes(_, _, _, _, _, _)
RECURSIVE AddDirsLoop(_, _, _, _, _, _, _)

\* AddDirsLoop with the test of allSubfilesDirs dropped: every directory is added
AddDirsLoopAppendsEveryDir(st, outputAccumulatedDirs, allFilesDirs, inputDirs, completePrefix, prefixToCut, parentDirName) ==
    IF inputDirs = <<>>
    THEN [dirs |-> outputAccumulatedDirs, all |-> allFilesDirs, err |-> "nil"]
    ELSE
      LET currentFile == Head(inputDirs)
          completePath == parentDirName \o currentFile.Name \o Slash
          cut == CutPrefix(completePath, prefixToCut)
          subDirs == ReadDir(st, completePath)
          sub == AddDirsWithCommonPrefixes(st, outputAccumulatedDirs, subDirs.files,
                                           completePrefix, prefixToCut, completePath)
      IN  IF ~HasPrefix(completePath, completePrefix) \/ ~cut.found
          THEN AddDirsLoop(st, outputAccumulatedDirs, allFilesDirs, Tail(inputDirs),
                           completePrefix, prefixToCut, parentDirName)
          ELSE IF ~currentFile.IsDir
          THEN AddDirsLoop(st, outputAccumulatedDirs, FALSE, Tail(inputDirs),
                           completePrefix, prefixToCut, parentDirName)
          ELSE IF subDirs.err # "nil"
          THEN [dirs |-> outputAccumulatedDirs, all |-> allFilesDirs,
                err |-> subDirs.err]
          ELSE IF sub.err # "nil"
          THEN [dirs |-> sub.dirs, all |-> allFilesDirs, err |-> sub.err]
          ELSE AddDirsLoop(st,
                           Append(sub.dirs, cut.after),
                           allFilesDirs, Tail(inputDirs),
                           completePrefix, prefixToCut, parentDirName)

\* the body of the loop over inputDirs, from the entry at the head of inputDirs
\* on, with the values outputAccumulatedDirs and allFilesDirs have there
AddDirsLoop(st, outputAccumulatedDirs, allFilesDirs, inputDirs, completePrefix, prefixToCut, parentDirName) ==
    IF inputDirs = <<>>
    THEN [dirs |-> outputAccumulatedDirs, all |-> allFilesDirs, err |-> "nil"]
    ELSE
      LET currentFile == Head(inputDirs)
          completePath == parentDirName \o currentFile.Name \o Slash
          cut == CutPrefix(completePath, prefixToCut)
          subDirs == ReadDir(st, completePath)
          sub == AddDirsWithCommonPrefixes(st, outputAccumulatedDirs, subDirs.files,
                                           completePrefix, prefixToCut, completePath)
      IN  IF ~HasPrefix(completePath, completePrefix) \/ ~cut.found
          THEN AddDirsLoop(st, outputAccumulatedDirs, allFilesDirs, Tail(inputDirs),
                           completePrefix, prefixToCut, parentDirName)
          ELSE IF ~currentFile.IsDir
          THEN AddDirsLoop(st, outputAccumulatedDirs, FALSE, Tail(inputDirs),
                           completePrefix, prefixToCut, parentDirName)
          ELSE IF subDirs.err # "nil"
          THEN [dirs |-> outputAccumulatedDirs, all |-> allFilesDirs,
                err |-> subDirs.err]
          ELSE IF sub.err # "nil"
          THEN [dirs |-> sub.dirs, all |-> allFilesDirs, err |-> sub.err]
          ELSE AddDirsLoop(st,
                           IF ~sub.all THEN Append(sub.dirs, cut.after) ELSE sub.dirs,
                           allFilesDirs, Tail(inputDirs),
                           completePrefix, prefixToCut, parentDirName)

AddDirsWithCommonPrefixes(st, accumulatedDirs, inputDirs, completePrefix, prefixToCut, parentDirName) ==
    AddDirsLoop(st, accumulatedDirs, TRUE, inputDirs, completePrefix, prefixToCut,
                parentDirName)

RECURSIVE GetAllFiles(_, _, _, _)
GetAllFiles(st, accumulatedFiles, inputDirs, parentDirName) ==
    IF inputDirs = <<>>
    THEN [files |-> accumulatedFiles, err |-> "nil"]
    ELSE
      LET currentFile == Head(inputDirs)
          completePath == parentDirName \o currentFile.Name \o Slash
          subDirs == ReadDir(st, completePath)
          sub == GetAllFiles(st, accumulatedFiles, subDirs.files, completePath)
      IN  IF ~currentFile.IsDir
          THEN GetAllFiles(st, Append(accumulatedFiles, completePath),
                           Tail(inputDirs), parentDirName)
          ELSE IF subDirs.err # "nil"
          THEN [files |-> accumulatedFiles, err |-> subDirs.err]
          ELSE IF sub.err # "nil"
          THEN sub
          ELSE GetAllFiles(st, sub.files, Tail(inputDirs), parentDirName)

Contains(seq, x) == \E i \in 1..Len(seq) : seq[i] = x

RECURSIVE DeterminePrefixesLoop(_, _, _, _)
DeterminePrefixesLoop(prefixes, fileList, delimiter, prefixToCut) ==
    IF fileList = <<>> THEN prefixes
    ELSE
      LET cut == CutPrefix(Head(fileList), prefixToCut)
          commonPrefix == cut.after
          lastDelimiterI == LastIndex(commonPrefix, delimiter)
          currentPrefix == SubSeq(commonPrefix, 1, lastDelimiterI)
      IN  IF ~cut.found \/ lastDelimiterI = -1 \/ Contains(prefixes, currentPrefix)
          THEN DeterminePrefixesLoop(prefixes, Tail(fileList), delimiter, prefixToCut)
          ELSE DeterminePrefixesLoop(Append(prefixes, currentPrefix), Tail(fileList),
                                     delimiter, prefixToCut)

DeterminePrefixesFromFilesWithDelimiter(fileList, delimiter, prefixToCut) ==
    DeterminePrefixesLoop(<<>>, fileList, delimiter, prefixToCut)

\* ListingRoot without the prefix: the walk starts at the bucket's directory
ListingRootOfBucket(cfg, bucket, prefix, delimiter) ==
    IF delimiter = Slash THEN cfg.bucketsDir \o bucket \o Slash ELSE bucket

\* the directory ListCommonPrefixes reads first
ListingRoot(cfg, bucket, prefix, delimiter) ==
    IF delimiter = Slash
    THEN cfg.bucketsDir \o bucket \o Slash \o NormalizePrefix(prefix, delimiter)
    ELSE bucket

\* The branch of ListCommonPrefixes for a delimiter other than "/" (rootDir is
\* the bucket, every file is enumerated, the prefixes are regrouped), for any
\* delimiter it is handed.
ListCommonPrefixesFromAllFiles(cfg, st, bucket, prefix, delimiter) ==
    LET prefixToCut == cfg.bucketsDir \o bucket \o delimiter
        rootDir == bucket
        rootSubdirs == ReadDir(st, rootDir)
        allFiles == GetAllFiles(st, <<>>, rootSubdirs.files, rootDir)
    IN  IF rootSubdirs.err # "nil"
        THEN IF rootSubdirs.err = "NotFound"
             THEN [dirs |-> <<>>, err |-> "nil"]
             ELSE [dirs |-> <<>>, err |-> rootSubdirs.err]
        ELSE IF allFiles.err # "nil"
        THEN [dirs |-> <<>>, err |-> allFiles.err]
        ELSE [dirs |-> DeterminePrefixesFromFilesWithDelimiter(allFiles.files, delimiter, prefixToCut),
              err |-> "nil"]

\* ListCommonPrefixes without the IsErrNotFound test: a missing root is an error
ListCommonPrefixesFailsOnMissingRoot(cfg, st, bucket, prefix, delimiter) ==
    LET prefixToCut == cfg.bucketsDir \o bucket \o delimiter
        rootDir == ListingRoot(cfg, bucket, prefix, delimiter)
        rootSubdirs == ReadDir(st, rootDir)
        walk == AddDirsWithCommonPrefixes(st, <<>>, rootSubdirs.files, rootDir,
                                          prefixToCut, rootDir)
        allFiles == GetAllFiles(st, <<>>, rootSubdirs.files, rootDir)
    IN  IF rootSubdirs.err # "nil"
        THEN [dirs |-> <<>>, err |-> rootSubdirs.err]
        ELSE IF delimiter = Slash
        THEN [dirs |-> walk.dirs, err |-> walk.err]
        ELSE IF allFiles.err # "nil"
        THEN [dirs |-> <<>>, err |-> allFiles.err]
        ELSE [dirs |-> DeterminePrefixesFromFilesWithDelimiter(allFiles.files,
                                                              delimiter, prefixToCut),
              err |-> "nil"]

ListCommonPrefixes(cfg, st, bucket, prefix, delimiter) ==
    LET prefixToCut == cfg.bucketsDir \o bucket \o delimiter
        rootDir == ListingRoot(cfg, bucket, prefix, delimiter)
        rootSubdirs == ReadDir(st, rootDir)
        walk == AddDirsWithCommonPrefixes(st, <<>>, rootSubdirs.files, rootDir,
                                          prefixToCut, rootDir)
        allFiles == GetAllFiles(st, <<>>, rootSubdirs.files, rootDir)
    IN  IF rootSubdirs.err # "nil"
        THEN IF rootSubdirs.err = "NotFound"
             THEN [dirs |-> <<>>, err |-> "nil"]
             ELSE [dirs |-> <<>>, err |-> rootSubdirs.err]
        ELSE IF delimiter = Slash
        THEN [dirs |-> walk.dirs, err |-> walk.err]
        ELSE IF allFiles.err # "nil"
        THEN [dirs |-> <<>>, err |-> allFiles.err]
        ELSE [dirs |-> DeterminePrefixesFromFilesWithDelimiter(allFiles.files,
                                                              delimiter, prefixToCut),
              err |-> "nil"]

\* ---------------------------------------------------------------- calls

\* The host calls Init once, before any other operation; Init leaves the
\* delimiter non-empty.
Configured == w.delimiter # <<>>

CallInit(config) ==
    /\ ~Configured
    /\ w' = Init(config)
    /\ last' = [op |-> "Init", bucket |-> <<>>, arg |-> config.bucketsDir,
                delimiter |-> config.delimiter, err |-> "nil", result |-> <<>>,
                pre |-> store]
    /\ UNCHANGED <<store, stored, tasks>>

CallPutObject(bucket, key) ==
    /\ Configured
    /\ \/ Cardinality(store.files) < MaxObjects
       \/ Segments(ObjectPath(w, bucket, key)) \in store.files
    /\ LET r == PutObject(w, store, bucket, key)
       IN  /\ store' = r.store
           /\ last' = [op |-> "PutObject", bucket |-> bucket, arg |-> key,
                       delimiter |-> <<>>, err |-> r.err, result |-> <<>>,
                       pre |-> store]
           /\ stored' = IF r.err = "nil" THEN stored \cup {<<bucket, key>>} ELSE stored
    /\ UNCHANGED <<w, tasks>>

CallDeleteObject(bucket, key) ==
    /\ Configured
    /\ LET r == DeleteObject(w, store, bucket, key)
       IN  /\ store' = r.store
           /\ last' = [op |-> "DeleteObject", bucket |-> bucket, arg |-> key,
                       delimiter |-> <<>>, err |-> r.err, result |-> <<>>,
                       pre |-> store]
    /\ stored' = stored \ {<<bucket, key>>}
    /\ UNCHANGED <<w, tasks>>

CallObjectExists(bucket, key) ==
    /\ Configured
    /\ LET r == ObjectExists(w, store, bucket, key)
       IN  last' = [op |-> "ObjectExists", bucket |-> bucket, arg |-> key,
                    delimiter |-> <<>>, err |-> r.err, result |-> <<r.exists>>,
                    pre |-> store]
    /\ UNCHANGED <<w, store, stored, tasks>>

CallListObjects(bucket, prefix) ==
    /\ Configured
    /\ LET r == ListObjects(w, store, bucket, prefix)
       IN  last' = [op |-> "ListObjects", bucket |-> bucket, arg |-> prefix,
                    delimiter |-> <<>>, err |-> r.err, result |-> r.objects,
                    pre |-> store]
    /\ UNCHANGED <<w, store, stored, tasks>>

CallListCommonPrefixes(bucket, prefix, delimiter) ==
    /\ Configured
    /\ LET r == ListCommonPrefixes(w, store, bucket, prefix, delimiter)
       IN  last' = [op |-> "ListCommonPrefixes", bucket |-> bucket, arg |-> prefix,
                    delimiter |-> delimiter, err |-> r.err, result |-> r.dirs,
                    pre |-> store]
    /\ UNCHANGED <<w, store, stored, tasks>>

\* ---------------------------------------------------------------- inputs

Buckets == {<<"k">>}

Keys ==
    {<<"a">>, <<"c", "/", "a">>, <<"c", "/", "d", "/", "a">>, <<"e", "/", "a">>,
     <<"-", "a", "-", "b">>}

Prefixes == {<<>>, <<"c">>, <<"c", "/">>, <<"c", "/", "d">>, <<"b">>}

Delimiters == {Slash, <<"-">>}

BucketsDirOptions == {<<>>, <<"b">>, <<"b", "/">>, <<"/", "b">>}

DelimiterOptions == {<<>>, Slash, <<"-">>}

Next ==
    \/ \E bd \in BucketsDirOptions, dl \in DelimiterOptions :
           CallInit([bucketsDir |-> bd, delimiter |-> dl])
    \/ \E b \in Buckets, k \in Keys : CallPutObject(b, k)
    \/ \E b \in Buckets, k \in Keys : CallDeleteObject(b, k)
    \/ \E b \in Buckets, k \in Keys : CallObjectExists(b, k)
    \/ \E b \in Buckets, p \in Prefixes : CallListObjects(b, p)
    \/ \E b \in Buckets, p \in Prefixes, d \in Delimiters :
           CallListCommonPrefixes(b, p, d)

Spec == NewWebDAVObjectStore /\ [][Next]_vars

\* ---------------------------------------------------------------- the documented scenario

\* The example of ListCommonPrefixes' comment: bucket "backups" with the
\* directories my-app/cars, my-app/trains and some-other-app/bridges.
ScenarioBucket == <<"b", "a", "c", "k", "u", "p", "s">>

MyApp == <<"m", "y", "-", "a", "p", "p">>

MyAppCars == <<"m", "y", "-", "a", "p", "p", "/", "c", "a", "r", "s", "/">>

MyAppTrains == <<"m", "y", "-", "a", "p", "p", "/", "t", "r", "a", "i", "n", "s", "/">>

KeyCarsA == <<"m", "y", "-", "a", "p", "p", "/", "c", "a", "r", "s", "/", "a">>

KeyTrainsB == <<"m", "y", "-", "a", "p", "p", "/", "t", "r", "a", "i", "n", "s", "/", "b">>

KeyBridgesC == <<"s", "o", "m", "e", "-", "o", "t", "h", "e", "r", "-", "a", "p", "p", "/", "b", "r", "i", "d", "g", "e", "s", "/", "c">>

ScenarioKeys == {KeyCarsA, KeyTrainsB, KeyBridgesC}

ScenarioPrefixes == {<<>>, MyApp, MyAppCars, <<"s", "o", "m", "e", "-", "o", "t", "h", "e", "r", "-", "a", "p", "p">>}

ScenarioBucketsDirOptions == {<<"b", "a", "c", "k", "u", "p", "s", "/">>, <<"b", "a", "c", "k", "u", "p", "s">>}

NextScenario ==
    \/ \E bd \in ScenarioBucketsDirOptions :
           CallInit([bucketsDir |-> bd, delimiter |-> <<>>])
    \/ \E k \in ScenarioKeys : CallPutObject(ScenarioBucket, k)
    \/ \E k \in ScenarioKeys : CallDeleteObject(ScenarioBucket, k)
    \/ \E p \in ScenarioPrefixes : CallListObjects(ScenarioBucket, p)
    \/ \E p \in ScenarioPrefixes : CallListCommonPrefixes(ScenarioBucket, p, Slash)

SpecScenario == NewWebDAVObjectStore /\ [][NextScenario]_vars

\* ---------------------------------------------------------------- two calls at once

\* PutObject(bucket, putKey) and DeleteObject(bucket, delKey) run at the same
\* time, each on a client of its own; one transport request is one step.

\* the store after PutObject of every key of S
RECURSIVE PutAll(_, _, _, _)
PutAll(cfg, st, bucket, S) ==
    IF S = {} THEN st
    ELSE LET k == CHOOSE x \in S : TRUE
         IN  PutAll(cfg, PutObject(cfg, st, bucket, k).store, bucket, S \ {k})

TaskDir(key) == SplitPathToDirAndFilename(ObjectPath(w, tasks.bucket, key)).dir

InitConc ==
    \E bd \in BucketsDirOptions, dl \in DelimiterOptions, b \in Buckets,
       S \in SUBSET Keys, k1 \in Keys, k2 \in Keys :
        /\ Cardinality(S) < MaxObjects
        /\ k1 # k2
        /\ k2 \in S
        /\ w = Init([bucketsDir |-> bd, delimiter |-> dl])
        /\ SplitPathToDirAndFilename(ObjectPath(w, b, k1)).dir
               = SplitPathToDirAndFilename(ObjectPath(w, b, k2)).dir
        /\ store = PutAll(w, EmptyStore, b, S)
        /\ last = [op |-> "none", bucket |-> <<>>, arg |-> <<>>, delimiter |-> <<>>,
                   err |-> "nil", result |-> <<>>, pre |-> EmptyStore]
        /\ stored = {<<b, k>> : k \in S}
        /\ tasks = [state |-> "running", bucket |-> b, putKey |-> k1, delKey |-> k2,
                    putPc |-> "MkdirAll", putErr |-> "nil",
                    delPc |-> "Remove", delErr |-> "nil"]

\* PutObject: c.MkdirAll(dir, 0755)
PutMkdirAll ==
    /\ tasks.state = "running" /\ tasks.putPc = "MkdirAll"
    /\ LET r == MkdirAll(store, TaskDir(tasks.putKey))
       IN  /\ store' = r.store
           /\ tasks' = IF r.err # "nil"
                       THEN [tasks EXCEPT !.putPc = "done", !.putErr = r.err]
                       ELSE [tasks EXCEPT !.putPc = "WriteStream"]
    /\ UNCHANGED <<w, last, stored>>

\* PutObject: return c.WriteStream(path, body, 0755)
PutWriteStream ==
    /\ tasks.state = "running" /\ tasks.putPc = "WriteStream"
    /\ LET r == WriteStream(store, ObjectPath(w, tasks.bucket, tasks.putKey))
       IN  /\ store' = r.store
           /\ tasks' = [tasks EXCEPT !.putPc = "done", !.putErr = r.err]
    /\ UNCHANGED <<w, last, stored>>

\* DeleteObject: c.Remove(path)
DelRemove ==
    /\ tasks.state = "running" /\ tasks.delPc = "Remove"
    /\ LET r == Remove(store, ObjectPath(w, tasks.bucket, tasks.delKey))
       IN  /\ store' = r.store
           /\ tasks' = IF r.err # "nil"
                       THEN [tasks EXCEPT !.delPc = "done", !.delErr = r.err]
                       ELSE [tasks EXCEPT !.delPc = "ReadDir"]
    /\ UNCHANGED <<w, last, stored>>

\* DeleteObject: files, err := c.ReadDir(dir), and the test len(files) == 0
DelReadDir ==
    /\ tasks.state = "running" /\ tasks.delPc = "ReadDir"
    /\ LET r == ReadDir(store, TaskDir(tasks.delKey))
       IN  tasks' = IF r.err # "nil"
                    THEN [tasks EXCEPT !.delPc = "done", !.delErr = r.err]
                    ELSE IF Len(r.files) = 0
                    THEN [tasks EXCEPT !.delPc = "RemoveDir"]
                    ELSE [tasks EXCEPT !.delPc = "done"]
    /\ UNCHANGED <<w, store, last, stored>>

\* DeleteObject: c.Remove(dir)
DelRemoveDir ==
    /\ tasks.state = "running" /\ tasks.delPc = "RemoveDir"
    /\ LET r == Remove(store, TaskDir(tasks.delKey))
       IN  /\ store' = r.store
           /\ tasks' = [tasks EXCEPT !.delPc = "done", !.delErr = r.err]
    /\ UNCHANGED <<w, last, stored>>

NextConc ==
    \/ PutMkdirAll
    \/ PutWriteStream
    \/ DelRemove
    \/ DelReadDir
    \/ DelRemoveDir

SpecConc == InitConc /\ [][NextConc]_vars

\* ---------------------------------------------------------------- claims

IsCall(op) == last.op = op /\ last.err = "nil"

Elements(seq) == {seq[i] : i \in 1..Len(seq)}

\* the storage path of an object of the last call's bucket
LastPath(key) == Segments(ObjectPath(w, last.bucket, key))

\* the parent directory DeleteObject and PutObject compute for a key
LastDir(key) ==
    Segments(SplitPathToDirAndFilename(ObjectPath(w, last.bucket, key)).dir)

HasObjectBeneath(st, d) == \E f \in st.files : IsUnder(f, d) /\ f # d

\* C1: ListObjects(bucket, prefix) returns exactly the keys of the non-directory
\* entries directly in the directory bucket + normalized prefix, each key being
\* the entry's storage path without bucketsDir + bucket + delimiter (the key it
\* was put under), and nothing from subdirectories.
C1_ListObjectsReturnsDirectKeys ==
    IsCall("ListObjects") =>
        LET prefixToUse == NormalizePrefix(last.arg, w.delimiter)
            dir == Segments(w.bucketsDir \o last.bucket \o w.delimiter \o prefixToUse)
            names == {n \in ChildNames(last.pre, dir) :
                          Append(dir, n) \in last.pre.files}
        IN  /\ Elements(last.result) = {prefixToUse \o n : n \in names}
            /\ Len(last.result) = Cardinality(names)

\* C2: with delimiter "/", ListCommonPrefixes never returns a prefix naming a
\* directory without a non-directory object somewhere beneath it.
C2_NoPrefixWithoutObject ==
    (IsCall("ListCommonPrefixes") /\ last.delimiter = Slash) =>
        \A r \in Elements(last.result) :
            HasObjectBeneath(last.pre,
                             Segments(w.bucketsDir \o last.bucket \o Slash \o r))

\* C2 witness: a listing that returned a prefix while a directory without any
\* object beneath it sat under the same listing root.
C2_Witness ==
    /\ IsCall("ListCommonPrefixes")
    /\ last.delimiter = Slash
    /\ last.result # <<>>
    /\ \E d \in last.pre.dirs :
           /\ IsUnder(d, Segments(ListingRoot(w, last.bucket, last.arg, Slash)))
           /\ d # Segments(ListingRoot(w, last.bucket, last.arg, Slash))
           /\ ~HasObjectBeneath(last.pre, d)

\* C3 (as claimed): a directory exists only while an object is stored under it;
\* no empty directory is left behind at any depth.
C3_NoDirectoryWithoutObject ==
    \A d \in store.dirs : HasObjectBeneath(store, d)

\* C3 (amended): after a successful DeleteObject the immediate parent directory
\* of the deleted path is not left behind empty, and every other directory is
\* still there, with or without objects under it.
C3_ParentNotLeftEmpty ==
    IsCall("DeleteObject") =>
        /\ LastDir(last.arg) \in store.dirs =>
               ChildNames(store, LastDir(last.arg)) # {}
        /\ \A d \in last.pre.dirs : d # LastDir(last.arg) => d \in store.dirs

\* C3 witness: a delete removed the object and its emptied parent directory and
\* left the directory above it without any object.
C3_Witness ==
    /\ IsCall("DeleteObject")
    /\ LastPath(last.arg) \in last.pre.files
    /\ LastDir(last.arg) \in last.pre.dirs
    /\ LastDir(last.arg) \notin store.dirs
    /\ \E d \in store.dirs : IsUnder(LastDir(last.arg), d) /\ ~HasObjectBeneath(store, d)

\* C4: a successful DeleteObject removes the object; it removes the immediate
\* parent directory exactly when the parent has no entry left; nothing else in
\* the store changes.
C4_DeleteFrame ==
    IsCall("DeleteObject") =>
        LET path == LastPath(last.arg)
            dir  == LastDir(last.arg)
            removed == [files |-> last.pre.files \ {path}, dirs |-> last.pre.dirs]
            emptied == dir \in last.pre.dirs /\ ChildNames(removed, dir) = {}
        IN  /\ store.files = last.pre.files \ {path}
            /\ store.dirs = IF emptied THEN last.pre.dirs \ {dir} ELSE last.pre.dirs

\* C4 witness: a delete of a stored object whose parent kept another entry.
C4_Witness ==
    /\ IsCall("DeleteObject")
    /\ LastPath(last.arg) \in last.pre.files
    /\ LastPath(last.arg) \notin store.files
    /\ LastDir(last.arg) \in store.dirs
    /\ ChildNames(store, LastDir(last.arg)) # {}

\* C5: when PutObject(bucket, k1) and DeleteObject(bucket, k2), k1 # k2 in the
\* same parent directory, run at the same time on connections of their own and
\* PutObject returns success, the object k1 is on the store once both are done.
C5_ConcurrentPutIsKept ==
    (/\ tasks.state = "running"
     /\ tasks.putPc = "done" /\ tasks.putErr = "nil"
     /\ tasks.delPc = "done") =>
        Segments(ObjectPath(w, tasks.bucket, tasks.putKey)) \in store.files

\* C6: after Init the stored buckets directory is empty or ends with "/": "/"
\* is appended to a non-empty value that does not end with "/", and a value
\* that ends with "/" is stored as given.
C6_BucketsDirEndsWithSlash ==
    /\ Configured => (w.bucketsDir = <<>> \/ HasSuffix(w.bucketsDir, Slash))
    /\ last.op = "Init" =>
           w.bucketsDir = IF last.arg = <<>> \/ HasSuffix(last.arg, Slash)
                          THEN last.arg
                          ELSE last.arg \o Slash

\* the number of occurrences of the delimiter in s
Occurrences(s, delimiter) ==
    Cardinality({i \in 0..(Len(s) - Len(delimiter)) :
                     SubSeq(s, i + 1, i + Len(delimiter)) = delimiter})

\* C7: with delimiter "/", every string ListCommonPrefixes returns is the path
\* of a directory under bucketsDir + bucket + "/" + normalized prefix without
\* its bucketsDir + bucket + "/" front, so it starts with the normalized
\* prefix; with the objects my-app/cars/a, my-app/trains/b and
\* some-other-app/bridges/c in bucket "backups", the prefix "my-app" yields
\* exactly my-app/cars/, my-app/trains/.
C7_PrefixesUnderListingRoot ==
    (IsCall("ListCommonPrefixes") /\ last.delimiter = Slash) =>
        /\ \A r \in Elements(last.result) :
               /\ HasPrefix(r, NormalizePrefix(last.arg, Slash))
               /\ r # NormalizePrefix(last.arg, Slash)
               /\ Segments(w.bucketsDir \o last.bucket \o Slash \o r) \in last.pre.dirs
        /\ (/\ last.bucket = ScenarioBucket
            /\ last.arg = MyApp
            /\ last.pre.files = {LastPath(k) : k \in ScenarioKeys}) =>
               last.result = <<MyAppCars, MyAppTrains>>

\* C7 witness: the documented listing, on the three objects of the scenario.
C7_Witness ==
    /\ IsCall("ListCommonPrefixes")
    /\ last.delimiter = Slash
    /\ last.bucket = ScenarioBucket
    /\ last.arg = MyApp
    /\ last.pre.files = {LastPath(k) : k \in ScenarioKeys}
    /\ Len(last.result) = 2

\* C8: every common prefix ListCommonPrefixes returns lies exactly one level
\* below the normalized prefix: what follows the normalized prefix holds the
\* delimiter once, at its end.
C8_PrefixesOneLevelBelow ==
    IsCall("ListCommonPrefixes") =>
        \A r \in Elements(last.result) :
            LET cut == CutPrefix(r, NormalizePrefix(last.arg, last.delimiter))
            IN  /\ cut.found
                /\ HasSuffix(cut.after, last.delimiter)
                /\ Occurrences(cut.after, last.delimiter) = 1

\* C9: every string ListCommonPrefixes returns ends with the delimiter, for
\* the delimiter "/" and for any other delimiter.
C9_PrefixesEndWithDelimiter ==
    IsCall("ListCommonPrefixes") =>
        \A r \in Elements(last.result) : HasSuffix(r, last.delimiter)

\* the directory the last listing call read first
LastListingRoot ==
    IF last.op = "ListObjects"
    THEN Segments(w.bucketsDir \o last.bucket \o w.delimiter
                      \o NormalizePrefix(last.arg, w.delimiter))
    ELSE Segments(ListingRoot(w, last.bucket, last.arg, last.delimiter))

Missing(st, p) == p # <<>> /\ p \notin st.dirs /\ p \notin st.files

\* C10: when the directory ListCommonPrefixes or ListObjects reads first does
\* not exist, the call returns an empty result and no error, whatever the
\* delimiter, and leaves the store as it was.
C10_MissingRootIsEmptyResult ==
    (last.op \in {"ListObjects", "ListCommonPrefixes"}
         /\ Missing(last.pre, LastListingRoot)) =>
        /\ last.err = "nil"
        /\ last.result = <<>>
        /\ store = last.pre

\* C10 witness: a listing with a delimiter other than "/" whose root directory
\* is missing while objects are stored elsewhere.
C10_Witness ==
    /\ last.op = "ListCommonPrefixes"
    /\ last.delimiter # Slash
    /\ Missing(last.pre, LastListingRoot)
    /\ last.pre.files # {}
    /\ last.result = <<>>

\* C11: ObjectExists(bucket, key) returns (true, no error) exactly when the
\* object was stored by a successful PutObject(bucket, key) and not deleted
\* since, and (false, no error) otherwise, also for a key whose directory
\* DeleteObject removed with its last object.
C11_ObjectExistsIffStored ==
    last.op = "ObjectExists" =>
        /\ last.err = "nil"
        /\ last.result = <<(<<last.bucket, last.arg>> \in stored)>>

\* C11 witness: the object was put and deleted again, its directory went with
\* it while a directory above stayed, and ObjectExists answered false.
C11_Witness ==
    /\ last.op = "ObjectExists"
    /\ last.err = "nil"
    /\ last.result = <<FALSE>>
    /\ stored = {}
    /\ LastDir(last.arg) \notin store.dirs
    /\ \E d \in store.dirs : IsUnder(LastDir(last.arg), d)

\* C12: on the same directory tree, bucket and prefix, the listing by full
\* enumeration and regrouping, run with the delimiter "/", returns the same set
\* of results as the recursive directory walk.
C12_BothListingsAgree ==
    (IsCall("ListCommonPrefixes") /\ last.delimiter = Slash) =>
        Elements(last.result) =
            Elements(ListCommonPrefixesFromAllFiles(w, last.pre, last.bucket,
                                                    last.arg, Slash).dirs)

\* the names of segs, each followed by "/"
RECURSIVE JoinDir(_)
JoinDir(segs) ==
    IF segs = <<>> THEN <<>> ELSE Head(segs) \o Slash \o JoinDir(Tail(segs))

\* the boolean the walk of the last listing returns for the directory rel
\* segments below the listing root
WalkReportsAllDirs(rel) ==
    LET rootDir == ListingRoot(w, last.bucket, last.arg, Slash)
        dirName == rootDir \o JoinDir(rel)
    IN  AddDirsWithCommonPrefixes(last.pre, <<>>, ReadDir(last.pre, dirName).files,
                                  rootDir, w.bucketsDir \o last.bucket \o Slash,
                                  dirName).all

\* C13: in the recursive walk, the boolean a call returns for a directory is
\* true exactly when no non-directory object lies in it at any depth; a
\* directory whose only objects lie in deeper subdirectories reports false.
C13_FlagCoversAllDepths ==
    (IsCall("ListCommonPrefixes") /\ last.delimiter = Slash) =>
        LET root == Segments(ListingRoot(w, last.bucket, last.arg, Slash))
        IN  \A d \in last.pre.dirs :
                IsUnder(d, root) =>
                    (WalkReportsAllDirs(SubSeq(d, Len(root) + 1, Len(d)))
                         = ~HasObjectBeneath(last.pre, d))

\* the keys put into the last call's bucket and not deleted since
StoredKeys == {p[2] : p \in {q \in stored : q[1] = last.bucket}}

\* C14: with a configured delimiter other than "/", ListCommonPrefixes
\* enumerates every object put into the bucket, at any directory depth, and
\* returns, without duplicates, the part before the last delimiter of each key
\* that holds the delimiter; keys without the delimiter add nothing.  (The
\* order of the results is left aside here.)
C14_PrefixesOfEveryStoredKey ==
    (IsCall("ListCommonPrefixes") /\ last.delimiter # Slash
         /\ w.delimiter = last.delimiter) =>
        LET expected == {SubSeq(k, 1, LastIndex(k, last.delimiter)) :
                             k \in {x \in StoredKeys :
                                        LastIndex(x, last.delimiter) # -1}}
        IN  /\ Elements(last.result) = expected
            /\ Len(last.result) = Cardinality(expected)

====
